---- MODULE Spec2Model ----
(***************************************************************************)
(* A model of aio-overpass' query execution: Client.run_query, the try     *)
(* loop, the cooldown phase, the query mutator and the default runner.     *)
(*                                                                         *)
(* Coroutines are cooperative: a run_query call executes without           *)
(* interruption from one await to the next.  Every task has a position pc; *)
(* positions at an await are "suspended", all others are inside a          *)
(* synchronous stretch, during which no other task and no clock tick may   *)
(* step (Quiet).                                                           *)
(*                                                                         *)
(* Time: `now` is the whole-second part of the event loop clock.  A clock  *)
(* reading lies strictly above its whole-second part, so a measured        *)
(* duration is never exactly 0.0 (it is truthy) and `limit - duration`     *)
(* lies strictly below its whole-second difference; the code's             *)
(* comparisons are translated accordingly (see run_timeout_elapsed,        *)
(* BudgetSpent, CooldownExceeds).                                          *)
(***************************************************************************)
EXTENDS Integers, Sequences, FiniteSets, TLC

Tasks == {"t1", "t2"}
Queries == {"q1", "q2"}
Clients == {"c1", "c2"}

\* ----- bounds of the model
MaxTime == 2
DuoMaxTime == 1
MaxNbTries == 3
MaxRuns == 2
MaxCooldown == 1
MaxTries == 2
CacheTtlSecs == 2
RunTimeoutSecs == 2
InputTimeoutSecs == 1
RequestTotalSecs == 1
StatusTimeout == 1
InputMaxsizeKib == 1536
ServerSlots == 1
MaxDeclared == 2
TriesRunTimeoutSecs == 3
MaxFiboTries == 11
MaxStatusNumber == 2
MaxCooldownLines == 3

\* An error message contains at most MaxMarkers of the substrings the
\* classifier looks for; a response has at most MaxFragments error messages.
MaxMarkers == 2
MaxFragments == 2

\* An input_code has at most MaxCodeLen tokens; the effective QL of an
\* effective QL is produced up to MaxRewrites times.
MaxCodeLen == 3
MaxRewrites == 3

\* ----- program constants
DEFAULT_MAXSIZE_MIB == 512
DEFAULT_TIMEOUT_SECS == 180
DEFAULT_TOTAL_WITHOUT_QUERY_SECS == 20

\* Python's None for a number-valued attribute.
Unset == 0 - 1

\* The `cause` of an error that was constructed without one.
NoCause == "none"

\* Python's None for query.error.
NoError == [kind |-> "None", by |-> "none", run |-> 0, n |-> 0, cause |-> NoCause]

\* An error object: its class (kind; for a QueryRejectError its reject
\* cause), its identity (the task, run and try that created it) and its
\* GiveupCause (no error of the client names one: see GiveupErrorRaises).
MkError(kind, t, r, n) ==
  [kind |-> kind, by |-> t, run |-> r, n |-> n, cause |-> NoCause]

\* A ClientError made by a runner itself, never stored in a query.
ForeignError ==
  [kind |-> "Call", by |-> "runner", run |-> 0, n |-> 0, cause |-> NoCause]

\* Outcomes of an interpreter request that fails with a response or transport error.
PostErrorKinds ==
  {"QL", "TooBusy", "TooMany", "ExTimeout", "ExMaxsize", "Call"}

\* The failures drawn when two tasks call run_query concurrently.
DuoErrorKinds == {"QL", "TooMany", "Call"}

\* Outcomes of a failed status request.
StatusErrorKinds == {"Response"}

\* error.py: should_retry of each error class.
ShouldRetry(err) ==
  err.kind \in {"Call", "CallTimeout", "Response", "QueryResponse", "TooBusy",
                "TooMany", "ExTimeout", "ExMaxsize"}

\* A variant of is_too_many_queries that also holds for TooBusy rejections.
is_too_many_queries_OrBusy(err) == err.kind \in {"TooMany", "TooBusy"}

is_too_many_queries(err) == err.kind = "TooMany"

is_exceeding_timeout(err) == err.kind = "ExTimeout"

is_too_busy(err) == err.kind = "TooBusy"

is_exceeding_maxsize(err) == err.kind = "ExMaxsize"

\* The settings a query's input_code declares: [timeout:InputTimeoutSecs].
InputTimeout(q) == InputTimeoutSecs

\* q2's input_code also declares [maxsize:*], of InputMaxsizeKib * 1024
\* bytes (not a whole number of MiB); q1's declares none.
InputMaxsize(q) == IF q = "q1" THEN Unset ELSE InputMaxsizeKib

\* How the user configures each query after constructing it:
\* q1.run_timeout_secs = RunTimeoutSecs,
\* q2.request_timeout = RequestTimeout(total_without_query_secs=RequestTotalSecs).
UserRunTimeout(q) == IF q = "q1" THEN RunTimeoutSecs ELSE Unset

UserTotalWithoutQuerySecs(q) ==
  IF q = "q1" THEN DEFAULT_TOTAL_WITHOUT_QUERY_SECS ELSE RequestTotalSecs

\* Client(concurrency=...): the connection limit of each client's session.
Concurrency(c) == IF c = "c1" THEN 1 ELSE 2

\* Client(status_timeout_secs=...): unset for c1.
StatusTimeoutSecs(c) == IF c = "c1" THEN Unset ELSE StatusTimeout

\* Client(runner=...): c1 uses DefaultQueryRunner(max_tries=MaxTries,
\* cache_ttl_secs=CacheTtlSecs), c2 a custom QueryRunner.
RunnerKind(c) == IF c = "c1" THEN "default" ELSE "custom"

\* _NULL_LOGGER, the default of Query.__init__'s `logger` parameter.
NullLogger == "null"

\* The logger each query is constructed with: q1 is given one, q2 is not.
QueryLogger(q) == IF q = "q1" THEN "given" ELSE NullLogger

\* Query.__init__ for an input_code that declares [timeout:timeout] and
\* [maxsize:maxsize] (Unset: not declared; maxsize in KiB).  The declared
\* values are stored as they are written.
QueryInit(timeout, maxsize, logger) ==
  [ logger |-> logger,
    phase |-> "new",
    nb_tries |-> 0,
    error |-> NoError,
    response |-> FALSE,
    time_start |-> Unset,
    time_start_try |-> Unset,
    time_start_req |-> Unset,
    time_end_try |-> Unset,
    timeout |-> IF timeout = Unset THEN DEFAULT_TIMEOUT_SECS ELSE timeout,
    maxsize |-> IF maxsize = Unset THEN DEFAULT_MAXSIZE_MIB * 1024 ELSE maxsize,
    run_timeout_secs |-> Unset,
    total_without_query_secs |-> DEFAULT_TOTAL_WITHOUT_QUERY_SECS,
    last_timeout_secs_used |-> Unset,
    max_timeout_secs_exceeded |-> Unset ]

\* Query.__init__: the state of a freshly constructed query q.
NewQuery(q, logger) == QueryInit(InputTimeout(q), InputMaxsize(q), logger)

VARIABLES
  callers,  \* how many tasks call run_query in this behaviour
  now,      \* whole seconds of the event loop clock
  query,    \* query[q]: the attributes of each Query object
  cache,    \* expiration written in the cache file of the queries' cache key, or Unset
  pc,       \* pc[t]: position of task t's run_query call
  run,      \* run[t]: the call's arguments and bookkeeping
  out,      \* out[t]: how the task's last run_query call ended
  kill,     \* the cancel_queries call: its position and its client
  ret       \* the last call of a parser or classifier: its input and outcome

vars == <<callers, now, query, cache, pc, run, out, kill, ret>>

\* No parser or classifier has been called.
NoRet == [fn |-> "none"]

SuspendedPcs ==
  {"idle", "r_cache_read", "r_cache_write", "r_backoff", "r_custom",
   "status_wait", "status", "cd_sleep", "post_wait", "post"}

\* No other coroutine is inside a synchronous stretch.
Quiet(t) == \A u \in Tasks \ {t} : pc[u] \in SuspendedPcs

\* How a call ended: kind is "returned", "raised" (a ClientError, err),
\* "ValueError", "RunnerError", "AssertionError", "TypeError" or
\* "CancelledError"; `at` is where it left
\* run_query: "entry" (the query was done already), "loop" (done after the
\* runner), "runner" (_invoke_runner raised) or "try" (_try_query_once raised).
NoOutcome == [kind |-> "none", err |-> NoError, at |-> "none"]

IdleRun ==
  [q |-> "q1", c |-> "c1", rof |-> TRUE, runs |-> 0, calls |-> 0, tries |-> 0,
   wake |-> Unset, cd |-> 0, slept_from |-> Unset, raised |-> "none",
   hit |-> FALSE]

\* No cancel_queries call was made; `c` is meaningful once pc is not "idle".
NoKill == [pc |-> "idle", c |-> "c1"]

Init ==
  /\ callers \in {1, 2}
  /\ now = 0
  /\ query = [q \in Queries |->
                [NewQuery(q, QueryLogger(q)) EXCEPT
                   !.run_timeout_secs = UserRunTimeout(q),
                   !.total_without_query_secs = UserTotalWithoutQuerySecs(q)]]
  /\ cache = Unset
  /\ pc = [t \in Tasks |-> "idle"]
  /\ run = [t \in Tasks |-> IdleRun]
  /\ out = [t \in Tasks |-> NoOutcome]
  /\ kill = NoKill
  /\ ret = NoRet

\* ----- Query: derived properties

\* Query.done
done(qr) == qr.response

\* Query.was_cached (None is rendered as FALSE: both are falsy where it is used)
was_cached(qr) == qr.response /\ qr.nb_tries = 0

\* The assertions of Query.request_duration_secs hold.
request_duration_assert_ok(qr) ==
  qr.time_end_try # Unset /\ qr.time_start_req # Unset

\* Query.request_duration_secs, whole seconds; Unset for None.
request_duration_secs(qr) ==
  IF ~qr.response \/ was_cached(qr) THEN Unset
  ELSE qr.time_end_try - qr.time_start_req

\* Query.run_duration_secs, whole seconds; Unset for None.
run_duration_secs(qr) ==
  IF qr.time_start = Unset THEN Unset
  ELSE IF qr.time_end_try # Unset THEN qr.time_end_try - qr.time_start
  ELSE now - qr.time_start

\* Query.run_timeout_elapsed: run_timeout_secs < run_duration_secs, for a
\* duration strictly above its whole seconds.
run_timeout_elapsed(qr) ==
  /\ qr.run_timeout_secs # Unset
  /\ run_duration_secs(qr) # Unset
  /\ qr.run_timeout_secs <= run_duration_secs(qr)

\* Query.maxsize_mib (getter): two floor divisions of the byte count; the
\* model keeps settings["maxsize"] in KiB.
maxsize_mib(qr) == qr.maxsize \div 1024

\* Query.maxsize_mib (setter) for a value > 0
set_maxsize_mib(qr, value) == [qr EXCEPT !.maxsize = value * 1024]

\* Query.reset: __init__ is called again with input_code and kwargs only, so
\* `logger` takes its default.
reset(q, qr) == NewQuery(q, NullLogger)

\* ----- _QueryMutator

\* query[q].phase follows the calls of the _QueryMutator methods on the
\* query: "new" (none yet), "begun" (begin_try), "requested"
\* (begin_request), "closed" (succeed_try or fail_try), "ended" (end_try);
\* a call in any other place of the order begin_try, begin_request at most
\* once, one of succeed_try and fail_try, end_try leads to "broken".
NextPhase(phase, method) ==
  CASE method = "begin_try" ->
         IF phase \in {"new", "ended"} THEN "begun" ELSE "broken"
    [] method = "begin_request" ->
         IF phase = "begun" THEN "requested" ELSE "broken"
    [] method \in {"succeed_try", "fail_try"} ->
         IF phase \in {"begun", "requested"} THEN "closed" ELSE "broken"
    [] OTHER ->
         IF phase = "closed" THEN "ended" ELSE "broken"

begin_try(qr) ==
  [qr EXCEPT !.phase = NextPhase(@, "begin_try"),
             !.time_start = IF @ = Unset THEN now ELSE @,
             !.time_start_try = now,
             !.time_start_req = Unset,
             !.time_end_try = Unset]

begin_request(qr) ==
  [qr EXCEPT !.phase = NextPhase(@, "begin_request"), !.time_start_req = now]

succeed_try(qr) ==
  [qr EXCEPT !.phase = NextPhase(@, "succeed_try"),
             !.time_end_try = now, !.response = TRUE, !.error = NoError]

\* fail_try's assertion holds
fail_try_assert_ok(qr, err) ==
  is_exceeding_timeout(err) => qr.last_timeout_secs_used # Unset

fail_try(qr, err) ==
  [qr EXCEPT !.phase = NextPhase(@, "fail_try"),
             !.error = err,
             !.max_timeout_secs_exceeded =
                IF is_exceeding_timeout(err) /\ fail_try_assert_ok(qr, err)
                THEN qr.last_timeout_secs_used ELSE @]

end_try(qr) ==
  [qr EXCEPT !.phase = NextPhase(@, "end_try"), !.nb_tries = @ + 1]

\* ----- how a run_query call ends

Finish(t, kind, err, at) ==
  /\ pc' = [pc EXCEPT ![t] = "idle"]
  /\ out' = [out EXCEPT ![t] = [kind |-> kind, err |-> err, at |-> at]]

\* The error object a try of task t creates now.
NewError(t, kind) == MkError(kind, t, run[t].runs, run[t].tries)

\* A variant of TryFails that starts the next try without invoking the
\* runner.
TryFails_SkipsRunner(t, err) ==
  LET q == run[t].q
      qr == query[q]
  IN /\ query' = [query EXCEPT ![q] = end_try(fail_try(qr, err))]
     /\ pc' = [pc EXCEPT ![t] = "after_runner"]
     /\ out' = out

\* The except/finally clauses of _try_query_once for a ClientError `err`
\* raised inside the try: fail_try, end_try, back to the loop head; an
\* AssertionError raised by fail_try leaves run_query after end_try.
TryFails(t, err) ==
  LET q == run[t].q
      qr == query[q]
  IN /\ query' = [query EXCEPT ![q] = end_try(fail_try(qr, err))]
     /\ IF fail_try_assert_ok(qr, err)
        THEN pc' = [pc EXCEPT ![t] = "invoke"] /\ out' = out
        ELSE Finish(t, "AssertionError", NoError, "try")

\* An AssertionError raised inside the try: only the finally clause runs.
TryAsserts(t) ==
  /\ query' = [query EXCEPT ![run[t].q] = end_try(@)]
  /\ Finish(t, "AssertionError", NoError, "try")

\* `GiveupError(kwargs=..., after_secs=...)`: error.py declares `cause` as a
\* keyword-only dataclass field without default, and no construction in
\* client.py or query.py passes it, so the construction itself raises a
\* TypeError.  A TypeError is no ClientError: no `except` clause of
\* _try_query_once matches, only the finally clause runs (on `qr`, the query
\* as the try left it) and the TypeError leaves run_query.
GiveupErrorRaises(t, qr) ==
  /\ query' = [query EXCEPT ![run[t].q] = end_try(qr)]
  /\ Finish(t, "TypeError", NoError, "try")

\* `except CallTimeoutError`: the error is recorded, unless the run timeout
\* has elapsed; then a GiveupError is constructed in its place.
CallTimeoutFails(t) ==
  IF run_timeout_elapsed(query[run[t].q])
  THEN GiveupErrorRaises(t, query[run[t].q])
  ELSE TryFails(t, NewError(t, "CallTimeout"))

\* ----- Client._invoke_runner: what a raised exception leads to

\* run[t].raised records what the runner's last invocation raised:
\* "query_error", "client_error" (another ClientError), "assertion", "other".

\* The runner raised the ClientError `err`.
RunnerRaisesClientError(t, err) ==
  /\ run' = [run EXCEPT ![t].raised =
               IF err = query[run[t].q].error THEN "query_error" ELSE "client_error"]
  /\ IF err # query[run[t].q].error
     THEN Finish(t, "ValueError", err, "runner")
     ELSE IF run[t].rof
          THEN Finish(t, "raised", err, "runner")
          ELSE pc' = [pc EXCEPT ![t] = "after_runner"] /\ out' = out

\* The runner raised an AssertionError (re-raised as is).
RunnerRaisesAssertion(t) ==
  /\ run' = [run EXCEPT ![t].raised = "assertion"]
  /\ Finish(t, "AssertionError", NoError, "runner")

\* A variant of RunnerRaisesOther that swallows the exception.
RunnerRaisesOther_Swallowed(t) ==
  /\ run' = [run EXCEPT ![t].raised = "other"]
  /\ pc' = [pc EXCEPT ![t] = "after_runner"]
  /\ out' = out

\* The runner raised any other exception (wrapped in RunnerError).
RunnerRaisesOther(t) ==
  /\ run' = [run EXCEPT ![t].raised = "other"]
  /\ Finish(t, "RunnerError", NoError, "runner")

\* The runner returned.
RunnerReturns(t) == pc' = [pc EXCEPT ![t] = "after_runner"] /\ out' = out

\* ----- Client.run_query

\* The tasks are interchangeable: the first call is made by t1.
FirstTask == "t1"

\* The calls explored: one caller makes up to MaxRuns calls in a row, with
\* the same query or, once a cache file is written, with the other one on
\* the client that has the default runner; two callers make one call each,
\* t1 first and with q1, t2 with raise_on_failure left at its default.
MayCall(t, q, c, rof) ==
  IF callers = 1
  THEN /\ t = FirstTask /\ run[t].runs < MaxRuns
       /\ run[t].runs > 0
          => (q = run[t].q \/ (cache # Unset /\ RunnerKind(c) = "default"))
  ELSE /\ run[t].runs = 0
       /\ t = FirstTask => q = "q1"
       /\ t # FirstTask => (run[FirstTask].runs > 0 /\ rof)

\* Tries begun so far by all calls.
TriesBegun == run["t1"].tries + run["t2"].tries

\* The tries explored: up to MaxNbTries per call of a single caller, and
\* up to MaxNbTries in all for two callers.
MayTry(t) ==
  /\ query[run[t].q].nb_tries < MaxNbTries
  /\ run[t].tries < MaxNbTries
  /\ callers = 2 => TriesBegun < MaxNbTries

\* A variant of RunQuery that refuses a query whose previous call by the
\* same task did not return, as if that call still held the query.
RunQuery_StillHeld(t, q, c, rof) ==
  /\ pc[t] = "idle"
  /\ Quiet(t)
  /\ MayCall(t, q, c, rof)
  /\ run' = [run EXCEPT ![t] = [IdleRun EXCEPT !.q = q, !.c = c, !.rof = rof,
                                              !.runs = run[t].runs + 1]]
  /\ IF run[t].runs > 0 /\ run[t].q = q /\ out[t].kind # "returned"
     THEN /\ Finish(t, "AlreadyRunningError", NoError, "entry")
          /\ query' = query
     ELSE IF done(query[q])
     THEN /\ Finish(t, "returned", NoError, "entry")
          /\ query' = query
     ELSE /\ query' = [query EXCEPT ![q] = IF @.nb_tries > 0 THEN reset(q, @) ELSE @]
          /\ pc' = [pc EXCEPT ![t] = "invoke"]
          /\ out' = [out EXCEPT ![t] = NoOutcome]
  /\ UNCHANGED <<ret, callers, kill, now, cache>>

\* A variant of RunQuery without the early return for a done query.
RunQuery_IgnoresDone(t, q, c, rof) ==
  /\ pc[t] = "idle"
  /\ Quiet(t)
  /\ MayCall(t, q, c, rof)
  /\ run' = [run EXCEPT ![t] = [IdleRun EXCEPT !.q = q, !.c = c, !.rof = rof,
                                              !.runs = run[t].runs + 1]]
  /\ query' = [query EXCEPT ![q] = IF @.nb_tries > 0 THEN reset(q, @) ELSE @]
  /\ pc' = [pc EXCEPT ![t] = "invoke"]
  /\ out' = [out EXCEPT ![t] = NoOutcome]
  /\ UNCHANGED <<ret, callers, kill, now, cache>>

\* The call itself, up to the loop head.
RunQuery(t, q, c, rof) ==
  /\ pc[t] = "idle"
  /\ Quiet(t)
  /\ MayCall(t, q, c, rof)
  /\ run' = [run EXCEPT ![t] = [IdleRun EXCEPT !.q = q, !.c = c, !.rof = rof,
                                              !.runs = run[t].runs + 1]]
  /\ IF done(query[q])
     THEN /\ Finish(t, "returned", NoError, "entry")
          /\ query' = query
     ELSE /\ query' = [query EXCEPT ![q] = IF @.nb_tries > 0 THEN reset(q, @) ELSE @]
          /\ pc' = [pc EXCEPT ![t] = "invoke"]
          /\ out' = [out EXCEPT ![t] = NoOutcome]
  /\ UNCHANGED <<ret, callers, kill, now, cache>>

\* `await self._invoke_runner(query, ...)`: the runner is entered.  The
\* default runner runs up to its first await; a custom runner is taken to
\* suspend before it decides.
InvokeRunner(t) ==
  /\ pc[t] = "invoke"
  /\ run' = [run EXCEPT ![t].calls = @ + 1, ![t].raised = "none"]
  /\ pc' = [pc EXCEPT ![t] =
              IF RunnerKind(run[t].c) = "custom" THEN "r_custom"
              ELSE IF query[run[t].q].nb_tries = 0 THEN "r_cache_read"
              ELSE "r_body"]
  /\ UNCHANGED <<ret, callers, kill, now, query, cache, out>>

\* After the runner: `if query.done: return`, else _try_query_once begins
\* (begin_try), up to the cooldown check.
AfterRunner(t) ==
  /\ pc[t] = "after_runner"
  /\ IF done(query[run[t].q])
     THEN /\ Finish(t, "returned", NoError, "loop")
          /\ UNCHANGED <<query, run>>
     ELSE /\ MayTry(t)
          /\ query' = [query EXCEPT ![run[t].q] = begin_try(@)]
          /\ run' = [run EXCEPT ![t].tries = @ + 1, ![t].cd = 0,
                                ![t].slept_from = Unset]
          /\ pc' = [pc EXCEPT ![t] = "cooldown"]
          /\ out' = out
  /\ UNCHANGED <<ret, callers, kill, now, cache>>

\* ----- DefaultQueryRunner

\* _fibo_backoff_secs
RECURSIVE FiboLoop(_, _, _)
FiboLoop(a, b, n) == IF n = 0 THEN a ELSE FiboLoop(b, a + b, n - 1)

\* A variant of _fibo_backoff_secs that starts from `a, b = 1.0, 2.0`.
_fibo_backoff_secs_Skewed(tries) == FiboLoop(1, 2, tries)

_fibo_backoff_secs(tries) == FiboLoop(1, 1, tries)

\* The values of _fibo_backoff_secs for 0 .. MaxFiboTries tries.
FiboBackoffSecs == [n \in 0 .. MaxFiboTries |-> _fibo_backoff_secs(n)]

\* A variant of CacheHit that serves an expired entry.
CacheHit_IgnoresExpiration == cache # Unset

\* _cache_read finds a file that parses and has not expired.
CacheHit == cache # Unset /\ ~(cache <= now)

\* _cache_read sets query._response: caching is enabled, the file could be
\* opened and parsed (`readable`) and has not expired.
CacheServes(readable) == CacheTtlSecs # 0 /\ readable /\ CacheHit

\* `await asyncio.to_thread(self._cache_read, query)` returns; run[t].hit
\* records that it set the response.
CacheRead(t, readable) ==
  /\ pc[t] = "r_cache_read"
  /\ Quiet(t)
  /\ query' = [query EXCEPT ![run[t].q].response =
                 IF CacheServes(readable) THEN TRUE ELSE @]
  /\ run' = [run EXCEPT ![t].hit = CacheServes(readable)]
  /\ pc' = [pc EXCEPT ![t] = "r_body"]
  /\ UNCHANGED <<ret, callers, kill, now, cache, out>>

\* A variant of IncreasedTimeoutSecs that keeps the setting.
IncreasedTimeoutSecs_Same(qr) == qr.timeout

\* `query.timeout_secs *= 2`: the value handed to the setter.
IncreasedTimeoutSecs(qr) == qr.timeout * 2

\* A variant of IncreasedMaxsizeMib that halves the setting.
IncreasedMaxsizeMib_Halved(qr) == maxsize_mib(qr) \div 2

\* `query.maxsize_mib *= 2`: the value handed to the setter.
IncreasedMaxsizeMib(qr) == maxsize_mib(qr) * 2

\* DefaultQueryRunner.__call__ from `if query.done` to its next await, its
\* return or its raise.
RunnerBody(t) ==
  LET q == run[t].q
      qr == query[q]
      err == qr.error
  IN /\ pc[t] = "r_body"
     /\ IF done(qr)
        THEN /\ pc' = [pc EXCEPT ![t] =
                         IF was_cached(qr) THEN "after_runner" ELSE "r_cache_write"]
             /\ UNCHANGED <<query, run, out>>
        ELSE IF err # NoError /\ (qr.nb_tries = MaxTries \/ ~ShouldRetry(err))
        THEN /\ RunnerRaisesClientError(t, err)
             /\ query' = query
        ELSE IF is_too_busy(err)
        THEN /\ run' = [run EXCEPT ![t].wake = now + _fibo_backoff_secs(qr.nb_tries)]
             /\ pc' = [pc EXCEPT ![t] = "r_backoff"]
             /\ UNCHANGED <<query, out>>
        ELSE IF is_exceeding_timeout(err)
        THEN /\ query' = [query EXCEPT ![q].timeout = IncreasedTimeoutSecs(qr)]
             /\ RunnerReturns(t)
             /\ run' = run
        ELSE IF is_exceeding_maxsize(err)
        THEN IF IncreasedMaxsizeMib(qr) <= 0
             THEN RunnerRaisesOther(t) /\ query' = query
             ELSE /\ query' = [query EXCEPT ![q] =
                                 set_maxsize_mib(qr, IncreasedMaxsizeMib(qr))]
                  /\ RunnerReturns(t)
                  /\ run' = run
        ELSE /\ RunnerReturns(t)
             /\ UNCHANGED <<query, run>>
     /\ UNCHANGED <<ret, callers, kill, now, cache>>

\* `await asyncio.to_thread(self._cache_write, query)` returns; `written`
\* is whether the file could be written.
CacheWrite(t, written) ==
  /\ pc[t] = "r_cache_write"
  /\ Quiet(t)
  /\ IF CacheTtlSecs = 0
     THEN RunnerReturns(t) /\ UNCHANGED <<cache, run>>
     ELSE IF ~done(query[run[t].q])
     THEN RunnerRaisesAssertion(t) /\ cache' = cache
     ELSE /\ cache' = IF written THEN now + CacheTtlSecs ELSE cache
          /\ RunnerReturns(t)
          /\ run' = run
  /\ UNCHANGED <<ret, callers, kill, now, query>>

\* The back-off sleep of the default runner is over.
BackoffDone(t) ==
  /\ pc[t] = "r_backoff"
  /\ Quiet(t)
  /\ now >= run[t].wake
  /\ RunnerReturns(t)
  /\ run' = [run EXCEPT ![t].wake = Unset]
  /\ UNCHANGED <<ret, callers, kill, now, query, cache>>

\* ----- a custom QueryRunner: it returns, raises query.error, raises
\* another ClientError, fails an assertion or raises something else.
CustomRunnerChoices ==
  {"return", "raise_query_error", "raise_client_error", "raise_assertion",
   "raise_exception"}

CustomRunner(t, choice) ==
  /\ pc[t] = "r_custom"
  /\ Quiet(t)
  /\ choice = "raise_query_error" => query[run[t].q].error # NoError
  /\ CASE choice = "return" -> RunnerReturns(t) /\ run' = run
       [] choice = "raise_query_error" ->
            RunnerRaisesClientError(t, query[run[t].q].error)
       [] choice = "raise_client_error" -> RunnerRaisesClientError(t, ForeignError)
       [] choice = "raise_assertion" -> RunnerRaisesAssertion(t)
       [] OTHER -> RunnerRaisesOther(t)
  /\ UNCHANGED <<ret, callers, kill, now, query, cache>>

\* ----- Client._try_query_once

Min(a, b) == IF a <= b THEN a ELSE b

\* Connections of client c's session that carry a request.
InUse(c) == Cardinality({u \in Tasks : run[u].c = c /\ pc[u] \in {"post", "status"}})

\* A request with deadline `wake` can still be answered.
InTime(t) == run[t].wake = Unset \/ now < run[t].wake

\* A request with deadline `wake` has timed out (asyncio.TimeoutError).
TimedOut(t) == run[t].wake # Unset /\ now >= run[t].wake

\* `remaining <= 0.0` for remaining = run_timeout - run_duration, the
\* duration strictly above its whole seconds `rd`.
BudgetSpent(qr, rd) == qr.run_timeout_secs - rd <= 0

\* `status.cooldown_secs > remaining`, likewise.
CooldownExceeds(qr, rd, cd) == cd >= qr.run_timeout_secs - rd

\* Client._cooldown up to the status request, with
\* Client._next_status_req_timeout.
Cooldown(t) ==
  LET qr == query[run[t].q]
      rd == run_duration_secs(qr)
      st == StatusTimeoutSecs(run[t].c)
      remaining == qr.run_timeout_secs - rd
  IN /\ pc[t] = "cooldown"
     /\ IF ~is_too_many_queries(qr.error)
        THEN /\ pc' = [pc EXCEPT ![t] = "prepare"]
             /\ UNCHANGED <<query, run, out>>
        ELSE IF rd = Unset
        THEN TryAsserts(t) /\ run' = run
        ELSE IF qr.run_timeout_secs # Unset /\ BudgetSpent(qr, rd)
        THEN GiveupErrorRaises(t, qr) /\ run' = run
        ELSE /\ run' = [run EXCEPT ![t].wake =
                          IF qr.run_timeout_secs = Unset THEN Unset
                          ELSE IF st # Unset THEN now + Min(remaining, st)
                          ELSE now + remaining]
             /\ pc' = [pc EXCEPT ![t] = "status_wait"]
             /\ UNCHANGED <<query, out>>
     /\ UNCHANGED <<ret, callers, kill, now, cache>>

\* The status request gets a connection of the session's pool.
StatusSend(t) ==
  /\ pc[t] = "status_wait"
  /\ Quiet(t)
  /\ InUse(run[t].c) < Concurrency(run[t].c)
  /\ pc' = [pc EXCEPT ![t] = "status"]
  /\ UNCHANGED <<ret, callers, kill, now, query, cache, run, out>>

\* The status request returns a Status with cooldown_secs = cd; the rest
\* of Client._cooldown.  run[t].cd records the cooldown reported to this
\* try, run[t].slept_from when its sleep began.
StatusReply(t, cd) ==
  LET qr == query[run[t].q]
      rd == run_duration_secs(qr)
  IN /\ pc[t] = "status"
     /\ Quiet(t)
     /\ InTime(t)
     /\ IF cd = 0
        THEN /\ pc' = [pc EXCEPT ![t] = "prepare"]
             /\ run' = [run EXCEPT ![t].wake = Unset]
             /\ UNCHANGED <<query, out>>
        ELSE IF rd = Unset
        THEN TryAsserts(t) /\ run' = [run EXCEPT ![t].wake = Unset, ![t].cd = cd]
        ELSE IF qr.run_timeout_secs # Unset /\ CooldownExceeds(qr, rd, cd)
        THEN /\ GiveupErrorRaises(t, qr)
             /\ run' = [run EXCEPT ![t].wake = Unset, ![t].cd = cd]
        ELSE /\ run' = [run EXCEPT ![t].wake = now + cd, ![t].cd = cd,
                                   ![t].slept_from = now]
             /\ pc' = [pc EXCEPT ![t] = "cd_sleep"]
             /\ UNCHANGED <<query, out>>
     /\ UNCHANGED <<ret, callers, kill, now, cache>>

\* The status request fails with a ClientError (transport error, or a
\* response that does not parse).
StatusFail(t, kind) ==
  /\ pc[t] = "status"
  /\ Quiet(t)
  /\ InTime(t)
  /\ TryFails(t, NewError(t, kind))
  /\ run' = [run EXCEPT ![t].wake = Unset]
  /\ UNCHANGED <<ret, callers, kill, now, cache>>

\* The status request times out (CallTimeoutError).
StatusTimeoutFires(t) ==
  /\ pc[t] \in {"status_wait", "status"}
  /\ Quiet(t)
  /\ TimedOut(t)
  /\ CallTimeoutFails(t)
  /\ run' = [run EXCEPT ![t].wake = Unset]
  /\ UNCHANGED <<ret, callers, kill, now, cache>>

\* `await asyncio.sleep(status.cooldown_secs)` returns.
CooldownSleepDone(t) ==
  /\ pc[t] = "cd_sleep"
  /\ Quiet(t)
  /\ now >= run[t].wake
  /\ pc' = [pc EXCEPT ![t] = "prepare"]
  /\ run' = [run EXCEPT ![t].wake = Unset]
  /\ UNCHANGED <<ret, callers, kill, now, query, cache, out>>

\* A variant of _next_query_req_timeout that leaves the run timeout out.
_next_query_req_timeout_QueryOnly(qr, rd) ==
  IF qr.total_without_query_secs # Unset
  THEN qr.timeout + qr.total_without_query_secs ELSE Unset

\* _next_query_req_timeout: the request's total timeout, Unset for None.
\* run_total is never exactly 0.0, so it is truthy whenever it is set.
_next_query_req_timeout(qr, rd) ==
  LET run_total == IF qr.run_timeout_secs # Unset
                   THEN qr.run_timeout_secs - rd ELSE Unset
      query_total == IF qr.total_without_query_secs # Unset
                     THEN qr.timeout + qr.total_without_query_secs ELSE Unset
  IN IF qr.run_timeout_secs # Unset /\ query_total # Unset
     THEN Min(run_total, query_total)
     ELSE IF qr.run_timeout_secs # Unset THEN run_total ELSE query_total

\* Query._code: the largest [timeout:*] the run budget allows.
CodeMaxTimeout(qr, rd) ==
  IF qr.run_timeout_secs # Unset /\ rd # Unset
  THEN qr.run_timeout_secs - rd
  ELSE qr.timeout

\* Query._code constructs a GiveupError.
CodeGivesUp(qr, rd) ==
  \/ (qr.run_timeout_secs # Unset /\ rd # Unset /\ CodeMaxTimeout(qr, rd) <= 0)
  \/ (qr.max_timeout_secs_exceeded # Unset
      /\ qr.max_timeout_secs_exceeded >= CodeMaxTimeout(qr, rd))

\* Query._code: the [timeout:*] sent with the next request.
NextTimeoutSecsUsed(qr, rd) == Min(qr.timeout, CodeMaxTimeout(qr, rd))

\* _try_query_once from the request timeout to the POST being issued.
Prepare(t) ==
  LET q == run[t].q
      qr == query[q]
      rd == run_duration_secs(qr)
      total == _next_query_req_timeout(qr, rd)
      qb == begin_request(qr)
  IN /\ pc[t] = "prepare"
     /\ IF rd = Unset
        THEN TryAsserts(t) /\ run' = run
        ELSE IF (qr.run_timeout_secs # Unset \/ total # Unset) /\ total <= 0
        THEN GiveupErrorRaises(t, qr) /\ run' = run
        ELSE IF CodeGivesUp(qb, rd)
        THEN GiveupErrorRaises(t, qb) /\ run' = run
        ELSE /\ query' = [query EXCEPT ![q] =
                            [qb EXCEPT !.last_timeout_secs_used =
                                          NextTimeoutSecsUsed(qb, rd)]]
             /\ run' = [run EXCEPT ![t].wake =
                          IF qr.run_timeout_secs = Unset /\ total = Unset
                          THEN Unset ELSE now + total]
             /\ pc' = [pc EXCEPT ![t] = "post_wait"]
             /\ out' = out
     /\ UNCHANGED <<ret, callers, kill, now, cache>>

\* The interpreter request gets a connection of the session's pool.
SendPost(t) ==
  /\ pc[t] = "post_wait"
  /\ Quiet(t)
  /\ InUse(run[t].c) < Concurrency(run[t].c)
  /\ pc' = [pc EXCEPT ![t] = "post"]
  /\ UNCHANGED <<ret, callers, kill, now, query, cache, run, out>>

\* client.py calls `_result_or_raise(response, query.kwargs)`, without the
\* `query_logger` that error.py declares as third parameter without default;
\* taken by the letter that call raises TypeError for every response.  The
\* outcomes of an interpreter request below are those of the body of
\* _result_or_raise: the result set, or the error it classifies the response
\* as (the behaviour the repository's tests expect of run_query).
\* The interpreter answers with a result set: succeed_try, end_try.
PostSucceeds(t) ==
  /\ pc[t] = "post"
  /\ Quiet(t)
  /\ InTime(t)
  /\ query' = [query EXCEPT ![run[t].q] = end_try(succeed_try(@))]
  /\ pc' = [pc EXCEPT ![t] = "invoke"]
  /\ run' = [run EXCEPT ![t].wake = Unset]
  /\ UNCHANGED <<ret, callers, kill, now, cache, out>>

\* The interpreter request fails with a ClientError of class `kind`.
PostFails(t, kind) ==
  /\ pc[t] = "post"
  /\ callers = 2 => kind \in DuoErrorKinds
  /\ Quiet(t)
  /\ InTime(t)
  /\ TryFails(t, NewError(t, kind))
  /\ run' = [run EXCEPT ![t].wake = Unset]
  /\ UNCHANGED <<ret, callers, kill, now, cache>>

\* The interpreter request times out (CallTimeoutError).
PostTimeoutFires(t) ==
  /\ pc[t] \in {"post_wait", "post"}
  /\ Quiet(t)
  /\ TimedOut(t)
  /\ CallTimeoutFails(t)
  /\ run' = [run EXCEPT ![t].wake = Unset]
  /\ UNCHANGED <<ret, callers, kill, now, cache>>

\* ----- cancellation of the task that awaits run_query

\* The awaits at which cancellation is explored: those of a try and the
\* back-off sleep of the default runner.
CancelPcs == {"status_wait", "status", "cd_sleep", "post_wait", "post", "r_backoff"}

\* CancelledError is raised at the await the call is suspended in.  Inside
\* the runner, _invoke_runner's `except BaseException` wraps it in a
\* RunnerError.  Inside a try, no `except` clause of _map_request_error or
\* _try_query_once matches it: only `finally: end_try()` runs and the
\* CancelledError leaves run_query.
Cancel(t) ==
  /\ pc[t] \in CancelPcs
  /\ Quiet(t)
  /\ IF pc[t] = "r_backoff"
     THEN /\ run' = [run EXCEPT ![t].raised = "other", ![t].wake = Unset]
          /\ Finish(t, "RunnerError", NoError, "runner")
          /\ query' = query
     ELSE /\ query' = [query EXCEPT ![run[t].q] = end_try(@)]
          /\ run' = [run EXCEPT ![t].wake = Unset]
          /\ Finish(t, "CancelledError", NoError, "try")
  /\ UNCHANGED <<ret, callers, kill, now, cache>>

\* ----- Client.cancel_queries, called from a coroutine of its own and
\* without timeout_secs.

\* The calls explored: one per behaviour, on the client of a single
\* run_query caller whose last call has its interpreter request in flight.
MayCancelQueries(c) ==
  /\ kill.pc = "idle"
  /\ callers = 1
  /\ \E t \in Tasks : run[t].runs = MaxRuns /\ run[t].c = c /\ pc[t] = "post"

\* A variant of CancelQueries that sends the request on the client's shared
\* session, where it needs a free connection.
CancelQueries_SharedSession(c) ==
  /\ MayCancelQueries(c)
  /\ \A t \in Tasks : pc[t] \in SuspendedPcs
  /\ InUse(c) < Concurrency(c)
  /\ kill' = [pc |-> "get", c |-> c]
  /\ UNCHANGED <<ret, callers, now, query, cache, pc, run, out>>

\* The call up to the await of its GET /api/kill_my_queries, which is sent
\* on a session created for this request.
CancelQueries(c) ==
  /\ MayCancelQueries(c)
  /\ \A t \in Tasks : pc[t] \in SuspendedPcs
  /\ kill' = [pc |-> "get", c |-> c]
  /\ UNCHANGED <<ret, callers, now, query, cache, pc, run, out>>

\* The request is answered (the call returns the number of killed queries)
\* or fails (the call raises a ClientError).
CancelQueriesDone(ok) ==
  /\ kill.pc = "get"
  /\ \A t \in Tasks : pc[t] \in SuspendedPcs
  /\ kill' = [kill EXCEPT !.pc = IF ok THEN "returned" ELSE "raised"]
  /\ UNCHANGED <<ret, callers, now, query, cache, pc, run, out>>

\* ----- the environment

\* The clock is followed up to MaxTime for one caller, DuoMaxTime for two.
TimeBound == IF callers = 1 THEN MaxTime ELSE DuoMaxTime

\* A second passes while every coroutine is suspended.
Tick ==
  /\ now < TimeBound
  /\ \A t \in Tasks : pc[t] \in SuspendedPcs
  /\ \E t \in Tasks : pc[t] # "idle"
  /\ now' = now + 1
  /\ UNCHANGED <<ret, callers, kill, query, cache, pc, run, out>>


Next ==
  \/ \E t \in Tasks, q \in Queries, c \in Clients, rof \in BOOLEAN :
       RunQuery(t, q, c, rof)
  \/ \E t \in Tasks : InvokeRunner(t)
  \/ \E t \in Tasks : AfterRunner(t)
  \/ \E t \in Tasks, readable \in BOOLEAN : CacheRead(t, readable)
  \/ \E t \in Tasks : RunnerBody(t)
  \/ \E t \in Tasks, written \in BOOLEAN : CacheWrite(t, written)
  \/ \E t \in Tasks : BackoffDone(t)
  \/ \E t \in Tasks, choice \in CustomRunnerChoices : CustomRunner(t, choice)
  \/ \E t \in Tasks : Cooldown(t)
  \/ \E t \in Tasks : Cancel(t)
  \/ \E t \in Tasks : StatusSend(t)
  \/ \E t \in Tasks, cd \in 0..MaxCooldown : StatusReply(t, cd)
  \/ \E t \in Tasks, kind \in StatusErrorKinds : StatusFail(t, kind)
  \/ \E t \in Tasks : StatusTimeoutFires(t)
  \/ \E t \in Tasks : CooldownSleepDone(t)
  \/ \E t \in Tasks : Prepare(t)
  \/ \E t \in Tasks : SendPost(t)
  \/ \E t \in Tasks : PostSucceeds(t)
  \/ \E t \in Tasks, kind \in PostErrorKinds : PostFails(t, kind)
  \/ \E t \in Tasks : PostTimeoutFires(t)
  \/ \E c \in Clients : CancelQueries(c)
  \/ \E ok \in BOOLEAN : CancelQueriesDone(ok)
  \/ Tick

Spec == Init /\ [][Next]_vars

\* ----- properties

\* Positions inside _try_query_once.
TryPcs ==
  {"cooldown", "status_wait", "status", "cd_sleep", "prepare", "post_wait", "post"}

\* Positions inside the runner.
RunnerPcs == {"r_cache_read", "r_body", "r_cache_write", "r_backoff", "r_custom"}

\* Tasks of client c whose interpreter request is in flight.
Posting(c) == {t \in Tasks : run[t].c = c /\ pc[t] = "post"}

\* C1: while a run_query call on a query is in progress, every other
\* run_query call on the same query raises AlreadyRunningError and does
\* nothing to the query.
C1_OverlappingCallRaises ==
  [][\A t \in Tasks :
       (/\ pc[t] = "idle"
        /\ run'[t].runs = run[t].runs + 1
        /\ \E u \in Tasks \ {t} : pc[u] # "idle" /\ run[u].q = run'[t].q)
       => (/\ pc'[t] = "idle"
           /\ out'[t].kind = "AlreadyRunningError"
           /\ query' = query)]_vars

\* C2: the interpreter requests in flight from one client never exceed
\* min(slots, concurrency), slots being the rate limit ServerSlots the server
\* reports; stated for calls that run different queries.
C2_PostsWithinSlots ==
  \A c \in Clients :
    (\A t, u \in Posting(c) : t # u => run[t].q # run[u].q)
    => Cardinality(Posting(c)) <= Min(ServerSlots, Concurrency(c))

\* C3: in every reachable state, a done query has no error and has its
\* response, and a query with an error is not done.
C3_DoneExcludesError ==
  \A q \in Queries :
    /\ done(query[q]) => (query[q].error = NoError /\ query[q].response)
    /\ query[q].error # NoError => ~done(query[q])

\* C4 as stated: every run that ended by returning or by the runner raising
\* has made (tries of the run + 1) runner invocations.
C4_EveryEndedRunInvokedRunner ==
  \A t \in Tasks :
    (pc[t] = "idle" /\ out[t].at \in {"entry", "loop", "runner"})
    => run[t].calls = run[t].tries + 1

\* C4 amended: the runner is invoked before every try and once after the
\* last one, so that a run which ended after the runner has made
\* (tries + 1) invocations; a run on a query that is done already ends
\* without any invocation and without any try.
C4_RunnerBeforeEveryTry ==
  \A t \in Tasks :
    /\ pc[t] \in TryPcs \cup {"invoke"} => run[t].calls = run[t].tries
    /\ pc[t] \in RunnerPcs \cup {"after_runner"} => run[t].calls = run[t].tries + 1
    /\ (pc[t] = "idle" /\ out[t].at \in {"loop", "runner"})
       => run[t].calls = run[t].tries + 1
    /\ (pc[t] = "idle" /\ out[t].at = "entry")
       => (run[t].calls = 0 /\ run[t].tries = 0)

\* C4 witness: a run has returned after two tries and three invocations.
C4_Witness ==
  \E t \in Tasks :
    /\ pc[t] = "idle"
    /\ out[t].kind = "returned" /\ out[t].at = "loop"
    /\ run[t].tries = 2 /\ run[t].calls = 3

\* C5: with raise_on_failure = false, once the runner has raised
\* query.error the call has returned: no further try is made.
C5_GiveUpReturns ==
  \A t \in Tasks :
    (run[t].raised = "query_error" /\ ~run[t].rof)
    => (pc[t] = "idle" /\ out[t].kind = "returned")

\* C6: when run_query raises a ClientError it is the object in query.error,
\* it was recorded by the last try of this run, and the query is not done.
C6_RaisedErrorIsLastTrysError ==
  [][\A t \in Tasks :
       (pc[t] # "idle" /\ pc'[t] = "idle" /\ out'[t].kind = "raised")
       => LET e == out'[t].err
              qr == query'[run[t].q]
          IN /\ e = qr.error
             /\ e.by = t /\ e.run = run[t].runs /\ e.n = run[t].tries
             /\ ~done(qr)]_vars

\* C7: once the runner has raised an exception that is neither a ClientError
\* nor an AssertionError, the call has ended with RunnerError, whatever
\* raise_on_failure is, and no try follows the invocation; once it has raised
\* a ClientError other than query.error, the call has ended with ValueError.
C7_RunnerExceptionsSurface ==
  \A t \in Tasks :
    /\ run[t].raised = "other"
       => (/\ pc[t] = "idle"
           /\ out[t].kind = "RunnerError"
           /\ run[t].calls = run[t].tries + 1)
    /\ run[t].raised = "client_error"
       => (/\ pc[t] = "idle"
           /\ out[t].kind = "ValueError"
           /\ out[t].err # query[run[t].q].error
           /\ run[t].calls = run[t].tries + 1)

\* C7 witness: a call with raise_on_failure = false has ended with
\* RunnerError after a try, and another one with ValueError.
C7_Witness ==
  \E t, u \in Tasks :
    /\ run[t].raised = "other" /\ ~run[t].rof /\ run[t].tries >= 1
    /\ out[t].kind = "RunnerError"
    /\ run[u].raised = "client_error" /\ out[u].kind = "ValueError"

\* C8: under the default runner a run_query call makes at most max_tries
\* tries.
C8_AtMostMaxTries ==
  \A t \in Tasks :
    RunnerKind(run[t].c) = "default" => run[t].tries <= MaxTries

\* C9: under the default runner no try is begun after a try that failed
\* with an error that is not to be retried.
C9_NoTryAfterFinalError ==
  \A t \in Tasks :
    (RunnerKind(run[t].c) = "default" /\ pc[t] \in TryPcs)
    => (query[run[t].q].error = NoError \/ ShouldRetry(query[run[t].q].error))

\* C10: a try that was told a cooldown of cd > 0 seconds sends its request
\* no earlier than cd seconds later; when the request of a run's second try
\* then succeeds, nb_tries is 2, the error is None and the run has lasted
\* cd seconds at least.
C10_CooldownHonored ==
  [][\A t \in Tasks :
       /\ (run'[t].cd > 0 /\ pc'[t] \in {"post_wait", "post"})
          => now' >= run'[t].slept_from + run'[t].cd
       /\ (/\ pc[t] = "post" /\ pc'[t] = "invoke"
           /\ done(query'[run[t].q])
           /\ run[t].cd > 0 /\ run[t].tries = 2)
          => LET qr == query'[run[t].q]
             IN /\ qr.nb_tries = 2
                /\ qr.error = NoError
                /\ run_duration_secs(qr) >= run[t].cd]_vars

\* C11: when the first try of a run fails with TooManyQueries and the status
\* then reports a cooldown that exceeds the remaining run budget, the call
\* (default runner, raise_on_failure) ends by raising a GiveupError with
\* cause RunTimeoutByCooldown, without sleeping and without a second
\* interpreter request, and nb_tries is 1.
C11_GiveupByCooldown ==
  \A t \in Tasks :
    (/\ pc[t] = "idle" /\ out[t].at # "none"
     /\ RunnerKind(run[t].c) = "default" /\ run[t].rof
     /\ run[t].tries = 2 /\ run[t].cd > 0 /\ run[t].slept_from = Unset)
    => (/\ out[t].kind = "raised"
        /\ out[t].err.kind = "Giveup"
        /\ out[t].err.cause = "RunTimeoutByCooldown"
        /\ query[run[t].q].nb_tries = 1)

\* C12: once a query's run timeout has elapsed no further interpreter (or
\* status) request is sent for it: a try that is in its synchronous part in
\* that state fails with a GiveupError (recorded as query.error, the try
\* counted), no request is issued in that state, and when run_query is to
\* raise (raise_on_failure) the default runner's next invocation ends the
\* run by raising the recorded GiveupError.
C12_NoRequestAfterRunTimeout ==
  [][\A t \in Tasks :
       LET q == run[t].q
           qr == query[q]
       IN /\ (pc[t] \in {"cooldown", "prepare"} /\ run_timeout_elapsed(qr))
             => \/ pc'[t] = "prepare" /\ query'[q] = qr
                \/ pc'[t] = "invoke" /\ query'[q].error.kind = "Giveup"
                                     /\ query'[q].nb_tries = qr.nb_tries + 1
          /\ (pc'[t] \in {"post_wait", "status_wait"} /\ pc[t] # pc'[t])
             => ~run_timeout_elapsed(qr)
          /\ (/\ pc[t] = "r_body" /\ RunnerKind(run[t].c) = "default" /\ run[t].rof
              /\ ~done(qr) /\ qr.error.kind = "Giveup")
             => (/\ pc'[t] = "idle"
                 /\ out'[t].kind = "raised"
                 /\ out'[t].err = qr.error)]_vars

\* C13: when the default runner's cache read finds an entry that has not
\* expired, the query has its response with nb_tries = 0 (was_cached) and
\* no error, and the call then returns without any try, hence without any
\* status or interpreter request.
C13_CacheHitSkipsNetwork ==
  [][\A t \in Tasks :
       LET q == run[t].q
       IN /\ (pc[t] = "r_cache_read" /\ run'[t].hit)
             => (/\ query'[q].nb_tries = 0
                 /\ was_cached(query'[q])
                 /\ query'[q].error = NoError)
          /\ (pc[t] = "r_body" /\ run[t].hit)
             => (pc'[t] = "after_runner" /\ query' = query /\ run[t].tries = 0)
          /\ (pc[t] = "after_runner" /\ run[t].hit)
             => (/\ pc'[t] = "idle" /\ out'[t].kind = "returned"
                 /\ query' = query /\ run[t].tries = 0)]_vars

\* C14: a cache read never serves an entry that is missing or whose
\* expiration is not later than the current time (it leaves the query as it
\* is); the run of a query that is not done then goes on to a try, and a try
\* that succeeds leaves the query with nb_tries > 0 and was_cached false.
C14_ExpiredCacheNotServed ==
  [][\A t \in Tasks :
       LET q == run[t].q
       IN /\ (pc[t] = "r_cache_read" /\ pc'[t] = "r_body"
              /\ (cache = Unset \/ cache <= now))
             => (~run'[t].hit /\ query' = query)
          /\ (/\ pc[t] \in {"r_body", "after_runner"} /\ run[t].calls = 1
              /\ ~run[t].hit /\ ~done(query[q]) /\ query[q].error = NoError)
             => pc'[t] = (IF pc[t] = "r_body" THEN "after_runner" ELSE "cooldown")
          /\ (pc[t] = "post" /\ done(query'[q]) /\ ~done(query[q]))
             => (query'[q].nb_tries > 0 /\ ~was_cached(query'[q]))]_vars

\* C14 witness: a cache read has just left an expired entry unserved.
C14_Witness ==
  \E t \in Tasks :
    /\ pc[t] = "r_body" /\ run[t].calls = 1 /\ ~run[t].hit
    /\ cache # Unset /\ cache <= now
    /\ ~done(query[run[t].q])

C16_SettingsNeverDecrease ==
  [][\A t \in Tasks :
       (pc[t] # "idle" /\ pc'[t] # pc[t] /\ RunnerKind(run[t].c) = "default")
       => (/\ query'[run[t].q].timeout >= query[run[t].q].timeout
           /\ query'[run[t].q].maxsize >= query[run[t].q].maxsize)]_vars

\* C16 witness: within one run both settings were raised.
C16_Witness ==
  \E t \in Tasks :
    /\ pc[t] # "idle" /\ RunnerKind(run[t].c) = "default"
    /\ query[run[t].q].timeout > InputTimeout(run[t].q)
    /\ query[run[t].q].maxsize > NewQuery(run[t].q, NullLogger).maxsize

\* C17: the reset() that run_query applies to a query with earlier tries
\* leaves the query's logger (and its input_code, which fixes the declared
\* settings) unchanged and returns every other attribute to the value of a
\* freshly constructed query.
C17_ResetKeepsLogger ==
  [][\A t \in Tasks :
       (/\ pc[t] = "idle" /\ pc'[t] = "invoke"
        /\ query[run'[t].q].nb_tries > 0)
       => query'[run'[t].q] = NewQuery(run'[t].q, query[run'[t].q].logger)]_vars

\* C18: a run_query call on a query that is done returns at once: the call
\* ends in the step that begins it, without runner invocation or try (hence
\* without request), and the queries, the cache file and the clock are as
\* before.
C18_DoneQueryReturnsImmediately ==
  [][\A t \in Tasks :
       (/\ pc[t] = "idle" /\ run'[t].runs = run[t].runs + 1
        /\ done(query[run'[t].q]))
       => (/\ pc'[t] = "idle"
           /\ out'[t] = [kind |-> "returned", err |-> NoError, at |-> "entry"]
           /\ run'[t].calls = 0 /\ run'[t].tries = 0
           /\ query' = query /\ cache' = cache /\ now' = now)]_vars

\* C18 witness: a call has returned at its entry for a query that an earlier
\* call completed with a try.
C18_Witness ==
  \E t \in Tasks :
    /\ pc[t] = "idle" /\ out[t].at = "entry" /\ out[t].kind = "returned"
    /\ run[t].calls = 0
    /\ done(query[run[t].q]) /\ query[run[t].q].nb_tries > 0

\* C19: when a run_query call is cancelled while its interpreter request is
\* in flight, the call ends there, the try is counted once, and query.error
\* is a CallError created by this try.
C19_CancelledPostRecordsCallError ==
  [][\A t \in Tasks :
       LET q == run[t].q
       IN (pc[t] = "post" /\ out'[t].kind = "CancelledError")
          => (/\ pc'[t] = "idle"
              /\ query'[q].nb_tries = query[q].nb_tries + 1
              /\ query'[q].error.kind = "Call"
              /\ query'[q].error.by = t
              /\ query'[q].error.run = run[t].runs
              /\ query'[q].error.n = run[t].tries)]_vars

\* Every connection of client c's session carries a request.
PoolFull(c) == InUse(c) = Concurrency(c)

\* C20: cancel_queries takes no connection of the client's session and
\* waits for none: whenever the event loop can run it, the call can be made
\* and its request can complete, however many connections of the session
\* are in use; making it and completing it leave the run_query calls and
\* the connections they hold as they are.
C20_CancelQueriesBypassesPool ==
  /\ [](\A c \in Clients :
          (MayCancelQueries(c) /\ \A t \in Tasks : pc[t] \in SuspendedPcs)
          => ENABLED CancelQueries(c))
  /\ []((kill.pc = "get" /\ \A t \in Tasks : pc[t] \in SuspendedPcs)
          => ENABLED CancelQueriesDone(TRUE))
  /\ [][kill' # kill
          => (/\ \A c \in Clients : InUse(c)' = InUse(c)
              /\ pc' = pc /\ query' = query)]_vars

\* C20 witness: a cancel_queries call has returned while every connection
\* of its client's session carries an interpreter request.
C20_Witness ==
  /\ kill.pc = "returned"
  /\ PoolFull(kill.c)
  /\ \E t \in Tasks : pc[t] = "post" /\ run[t].c = kill.c

\* C22: while a run_query call is in progress (its reset done), no step
\* lowers the query's nb_tries; a step of the call that ends a try raises it
\* by exactly 1 and every other step of the call leaves it as it is, and no
\* step of anything else changes it; so it grows by exactly 1 from one
\* runner invocation to the next.
C22_NbTriesCountsTries ==
  [][\A t \in Tasks :
       LET q == run[t].q
       IN pc[t] # "idle"
          => query'[q].nb_tries =
               query[q].nb_tries +
                 (IF pc[t] \in TryPcs /\ pc'[t] \notin TryPcs THEN 1 ELSE 0)]_vars

\* C23: a run_query call on a query on which no other call is in progress
\* is never refused: it returns at once for a done query and enters the
\* runner otherwise, whether the earlier calls on the query returned or
\* raised; no call ends with AlreadyRunningError.
C23_EndedRunLeavesQueryFree ==
  [][\A t \in Tasks :
       LET q == run'[t].q
       IN (/\ pc[t] = "idle" /\ run'[t].runs = run[t].runs + 1
           /\ \A u \in Tasks \ {t} : pc[u] = "idle" \/ run[u].q # q)
          => (/\ out'[t].kind # "AlreadyRunningError"
              /\ IF done(query[q])
                 THEN pc'[t] = "idle" /\ out'[t].kind = "returned"
                 ELSE pc'[t] = "invoke" /\ out'[t] = NoOutcome)]_vars

\* C23 witness: a second call on q1 has entered the runner after its reset;
\* the reset (the logger is lost by it, the tries are zero) shows that the
\* first call made tries and did not complete the query.
C23_Witness ==
  \E t \in Tasks :
    /\ pc[t] = "invoke" /\ run[t].runs = 2 /\ run[t].q = "q1"
    /\ callers = 1
    /\ query["q1"].nb_tries = 0 /\ query["q1"].logger = NullLogger

\* C24: when the runner is about to be invoked, a query with nb_tries = 0
\* has no error, no run duration and no request duration, with or without
\* a response; a query with an error has nb_tries > 0 and a run duration;
\* a done query that was not cached has nb_tries > 0 and a request duration.
C24_ConsistentAtRunnerInvocation ==
  \A t \in Tasks :
    LET qr == query[run[t].q]
    IN pc[t] = "invoke"
       => (/\ qr.nb_tries = 0
              => (/\ qr.error = NoError
                  /\ run_duration_secs(qr) = Unset
                  /\ request_duration_secs(qr) = Unset)
           /\ qr.error # NoError
              => (qr.nb_tries > 0 /\ run_duration_secs(qr) # Unset)
           /\ (done(qr) /\ ~was_cached(qr))
              => (/\ qr.nb_tries > 0
                  /\ request_duration_assert_ok(qr)
                  /\ request_duration_secs(qr) # Unset))

\* C25: the transitions of every query occur in the order begin_try, then
\* begin_request at most once, then exactly one of succeed_try and fail_try,
\* then end_try exactly once, for every try that ends by success, by an
\* error or by giving up (a try ended by cancellation is left aside).
C25_TransitionsInOrder ==
  \A q \in Queries :
    query[q].phase = "broken"
    => \E t \in Tasks : run[t].q = q /\ out[t].kind = "CancelledError"

\* C26: a run_query call with the default runner and raise_on_failure ends
\* after finitely many steps, whatever the server answers: whenever the
\* call is about to begin a try, the tries the query still has before the
\* runner gives up, max_tries - nb_tries, are at least one (each try uses
\* one up, so the call cannot begin tries for ever).
C26_TriesLeftBeforeEveryTry ==
  \A t \in Tasks :
    (/\ pc[t] = "after_runner" /\ ~done(query[run[t].q])
     /\ RunnerKind(run[t].c) = "default" /\ run[t].rof)
    => query[run[t].q].nb_tries < MaxTries

\* Positions of the cooldown phase of a try: the status request and the
\* cooldown sleep.
CooldownPcs == {"status_wait", "status", "cd_sleep"}

\* C27: a try enters its cooldown phase (status request, then possibly a
\* sleep) only from its start and only when query.error is then a
\* TooManyQueries rejection; when the error at the start of the try is
\* anything else, or none, the try goes on to prepare its request at once
\* and changes nothing.
C27_CooldownOnlyAfterTooManyQueries ==
  [][\A t \in Tasks :
       LET qr == query[run[t].q]
       IN /\ (pc'[t] \in CooldownPcs /\ pc[t] \notin CooldownPcs)
             => (pc[t] = "cooldown" /\ qr.error.kind = "TooMany")
          /\ (pc[t] = "cooldown" /\ pc'[t] # "cooldown" /\ qr.error.kind # "TooMany")
             => (/\ pc'[t] = "prepare" /\ query' = query
                 /\ run'[t].cd = 0 /\ run'[t].slept_from = Unset)]_vars

\* C27 witness: a try that began after a TooBusy rejection has gone on to
\* its interpreter request without status request and without sleep, in a
\* run whose client could have made them.
C27_Witness ==
  \E t \in Tasks :
    /\ pc[t] = "post_wait" /\ query[run[t].q].error.kind = "TooBusy"
    /\ run[t].cd = 0 /\ run[t].slept_from = Unset /\ run[t].tries = 2

\* C28: when the interpreter request of a try times out, the try records a
\* GiveupError with cause RunTimeoutDuringQueryCall (not to be retried) if
\* the run timeout has elapsed at that moment, and the retryable
\* CallTimeoutError otherwise; either way the try is ended and counted.
C28_PostTimeoutRecordsError ==
  [][\A t \in Tasks :
       LET q == run[t].q
           qr == query[q]
       IN (/\ pc[t] \in {"post_wait", "post"} /\ TimedOut(t)
           /\ pc'[t] \notin {"post_wait", "post"}
           /\ out'[t].kind # "CancelledError")
          => /\ query'[q].nb_tries = qr.nb_tries + 1
             /\ IF run_timeout_elapsed(qr)
                THEN /\ query'[q].error.kind = "Giveup"
                     /\ query'[q].error.cause = "RunTimeoutDuringQueryCall"
                     /\ ~ShouldRetry(query'[q].error)
                ELSE /\ query'[q].error.kind = "CallTimeout"
                     /\ ShouldRetry(query'[q].error)]_vars

\* C29: a try whose effective [timeout:*] (the smaller of timeout_secs and
\* the run time left, rounded up, when a run timeout is set; timeout_secs
\* otherwise) is at most max_timed_out_after_secs fails with a GiveupError
\* with cause ExpectingQueryTimeout, and sends no interpreter request.
C29_ExpectedTimeoutGivesUp ==
  [][\A t \in Tasks :
       LET q == run[t].q
           qr == query[q]
           rd == run_duration_secs(qr)
           effective == IF qr.run_timeout_secs # Unset /\ rd # Unset
                        THEN Min(qr.timeout, qr.run_timeout_secs - rd)
                        ELSE qr.timeout
       IN (/\ pc[t] = "prepare" /\ pc'[t] # "prepare"
           /\ qr.max_timeout_secs_exceeded # Unset
           /\ effective <= qr.max_timeout_secs_exceeded)
          => /\ pc'[t] # "post_wait"
             /\ query'[q].time_start_req = qr.time_start_req
             /\ query'[q].error.kind = "Giveup"
             /\ query'[q].error.cause = "ExpectingQueryTimeout"]_vars

\* C30: the deadline of a try's interpreter request is the try's effective
\* [timeout:*] plus request_timeout.total_without_query_secs, counted from
\* the moment the request is prepared; when that total is not positive the
\* try fails with a GiveupError with cause RunTimeoutBeforeQueryCall and
\* sends no request.
C30_RequestDeadline ==
  [][\A t \in Tasks :
       LET q == run[t].q
           qr == query[q]
           rd == run_duration_secs(qr)
           effective == IF qr.run_timeout_secs # Unset /\ rd # Unset
                        THEN Min(qr.timeout, qr.run_timeout_secs - rd)
                        ELSE qr.timeout
           total == effective + qr.total_without_query_secs
       IN (/\ pc[t] = "prepare" /\ pc'[t] # "prepare"
           /\ qr.total_without_query_secs # Unset)
          => IF total <= 0
             THEN /\ pc'[t] # "post_wait"
                  /\ query'[q].error.kind = "Giveup"
                  /\ query'[q].error.cause = "RunTimeoutBeforeQueryCall"
             ELSE pc'[t] = "post_wait" => run'[t].wake = now + total]_vars

\* C31: the status request of the cooldown phase gets as total timeout the
\* smaller of the run time left and the client's status_timeout_secs,
\* whichever of the two is set (status_timeout_secs alone when the query has
\* no run timeout); when the run time left is not positive no status
\* request is made and the try fails with a GiveupError with cause
\* RunTimeoutBeforeStatusCall.
C31_StatusRequestTimeout ==
  [][\A t \in Tasks :
       LET q == run[t].q
           qr == query[q]
           st == StatusTimeoutSecs(run[t].c)
           remaining == qr.run_timeout_secs - run_duration_secs(qr)
       IN (/\ pc[t] = "cooldown" /\ pc'[t] # "cooldown"
           /\ is_too_many_queries(qr.error))
          => IF qr.run_timeout_secs # Unset /\ remaining <= 0
             THEN /\ pc'[t] # "status_wait"
                  /\ query'[q].error.kind = "Giveup"
                  /\ query'[q].error.cause = "RunTimeoutBeforeStatusCall"
             ELSE /\ pc'[t] = "status_wait"
                  /\ run'[t].wake =
                       IF qr.run_timeout_secs # Unset /\ st # Unset
                       THEN now + Min(remaining, st)
                       ELSE IF qr.run_timeout_secs # Unset THEN now + remaining
                       ELSE IF st # Unset THEN now + st
                       ELSE Unset]_vars

\* C33: when the default runner allows a retry after a TooBusy rejection
\* with nb_tries = n, it sleeps F(n) seconds before it returns, where
\* F(0) = F(1) = 1 and F(k) = F(k-1) + F(k-2) (1, 1, 2, 3, 5, 8, 13, ...,
\* checked up to n = MaxFiboTries), and wakes up no earlier; after any other
\* error that allows a retry it returns without sleeping.
C33_FibonacciBackoff ==
  [][LET F == <<1, 1, 2, 3, 5, 8, 13, 21, 34, 55, 89, 144>>
     IN /\ \A n \in 0 .. MaxFiboTries :
             /\ FiboBackoffSecs[n] = F[n + 1]
             /\ n >= 2 => FiboBackoffSecs[n] =
                            FiboBackoffSecs[n - 1] + FiboBackoffSecs[n - 2]
        /\ \A t \in Tasks :
             LET qr == query[run[t].q]
             IN /\ (/\ pc[t] = "r_body" /\ pc'[t] \in {"r_backoff", "after_runner"}
                    /\ ~done(qr) /\ run'[t].raised = "none")
                   => IF is_too_busy(qr.error)
                      THEN /\ pc'[t] = "r_backoff"
                           /\ run'[t].wake = now + F[qr.nb_tries + 1]
                      ELSE pc'[t] = "after_runner"
                /\ (pc[t] = "r_backoff" /\ pc'[t] = "after_runner")
                   => now >= run[t].wake]_vars

\* C33 witness: the default runner has slept after the TooBusy rejection of
\* a query's first try, for the one second it asked for, and returned.
C33_Witness ==
  \E t \in Tasks :
    /\ pc[t] = "after_runner" /\ RunnerKind(run[t].c) = "default"
    /\ is_too_busy(query[run[t].q].error)
    /\ query[run[t].q].nb_tries = 1
    /\ run[t].tries = 1
    /\ now = query[run[t].q].time_start + 1

\* ----- the settings of a query on their own: queries are constructed from
\* input_code with any declared settings, and the setters are called with
\* any value.

\* A declared value that is not an integer, as in [timeout:not a number].
NotANumber == 0 - 2

\* Declared [timeout:*] values: none, not a number, and small integers.
DeclaredTimeouts == {Unset, NotANumber} \cup (0 .. MaxDeclared)

\* Declared [maxsize:*] values, in KiB: none, 0 and whole KiB.
DeclaredMaxsizes == {Unset, 0, 1, InputMaxsizeKib}

\* Values given to the timeout_secs setter.
TimeoutValues == (0 - 1) .. MaxDeclared

\* 2^21: values given to the maxsize_mib setter are counted in half bytes.
HalfBytesPerMib == 2097152

\* Values given to the maxsize_mib setter, in half bytes: negative, zero,
\* positive but less than a byte, and whole MiB.
MaxsizeValues == {0 - HalfBytesPerMib, 0, 1, HalfBytesPerMib, 2 * HalfBytesPerMib}

SettingsInit ==
  /\ callers = 1
  /\ now = 0
  /\ query \in {[q \in Queries |-> QueryInit(d[q].t, d[q].m, NullLogger)] :
                  d \in [Queries -> [t : DeclaredTimeouts, m : DeclaredMaxsizes]]}
  /\ cache = Unset
  /\ pc = [t \in Tasks |-> "idle"]
  /\ run = [t \in Tasks |-> IdleRun]
  /\ out = [t \in Tasks |-> NoOutcome]
  /\ kill = NoKill
  /\ ret = NoRet

\* How a setter call by the first task ended.
SetterOutcome(raised, setter) ==
  out' = [out EXCEPT ![FirstTask] =
            [kind |-> IF raised THEN "ValueError" ELSE "returned",
             err |-> NoError, at |-> setter]]

\* `query.timeout_secs = value`
SetTimeoutSecs(q, value) ==
  /\ IF value < 1
     THEN query' = query /\ SetterOutcome(TRUE, "timeout_secs")
     ELSE /\ query' = [query EXCEPT ![q].timeout = value]
          /\ SetterOutcome(FALSE, "timeout_secs")
  /\ UNCHANGED <<ret, callers, now, cache, pc, run, kill>>

\* `query.maxsize_mib = value`, value in half bytes: the setting is
\* int(value * 1024.0 * 1024.0) bytes, kept in KiB.
SetMaxsizeMib(q, value) ==
  /\ IF value <= 0
     THEN query' = query /\ SetterOutcome(TRUE, "maxsize_mib")
     ELSE /\ query' = [query EXCEPT ![q].maxsize = (value \div 2) \div 1024]
          /\ SetterOutcome(FALSE, "maxsize_mib")
  /\ UNCHANGED <<ret, callers, now, cache, pc, run, kill>>

SettingsNext ==
  \/ \E q \in Queries, value \in TimeoutValues : SetTimeoutSecs(q, value)
  \/ \E q \in Queries, value \in MaxsizeValues : SetMaxsizeMib(q, value)

SettingsSpec == SettingsInit /\ [][SettingsNext]_vars

\* C21: in every state of a query, however it was constructed and whatever
\* was given to its setters, the timeout setting is an integer >= 1 and the
\* maxsize setting is >= 1.
C21_SettingsAtLeastOne ==
  \A q \in Queries : query[q].timeout >= 1 /\ query[q].maxsize >= 1

\* ----- the tries of single runs on their own: one task runs q1 on the
\* client with the custom runner, the runner sets timeout_secs to any value
\* between the tries, and the server rejects a request, answers it or
\* leaves it unanswered.

\* Values of [timeout:*] the query declares and the runner sets.
TriesTimeouts == 1 .. MaxDeclared

TriesInit ==
  /\ callers = 1
  /\ now = 0
  /\ \E timeout \in TriesTimeouts,
        run_timeout \in {Unset, RunTimeoutSecs, TriesRunTimeoutSecs} :
       query = [q \in Queries |->
                  [QueryInit(timeout, Unset, NullLogger) EXCEPT
                     !.run_timeout_secs = run_timeout]]
  /\ cache = Unset
  /\ pc = [t \in Tasks |-> "idle"]
  /\ run = [t \in Tasks |-> IdleRun]
  /\ out = [t \in Tasks |-> NoOutcome]
  /\ kill = NoKill
  /\ ret = NoRet

\* A custom runner that does `query.timeout_secs = value` (value >= 1) and
\* returns.
RunnerSetsTimeout(t, value) ==
  /\ pc[t] = "r_custom"
  /\ Quiet(t)
  /\ query' = [query EXCEPT ![run[t].q].timeout = value]
  /\ RunnerReturns(t)
  /\ UNCHANGED <<ret, callers, kill, now, cache, run>>

\* Rejections and failures of the interpreter request drawn here.
TriesErrorKinds == {"ExTimeout", "ExMaxsize", "Call"}

TriesNext ==
  \/ \E rof \in BOOLEAN : RunQuery(FirstTask, "q1", "c2", rof)
  \/ InvokeRunner(FirstTask)
  \/ \E value \in TriesTimeouts : RunnerSetsTimeout(FirstTask, value)
  \/ AfterRunner(FirstTask)
  \/ Cooldown(FirstTask)
  \/ Prepare(FirstTask)
  \/ SendPost(FirstTask)
  \/ PostSucceeds(FirstTask)
  \/ \E kind \in TriesErrorKinds : PostFails(FirstTask, kind)
  \/ PostTimeoutFires(FirstTask)
  \/ Tick

TriesSpec == TriesInit /\ [][TriesNext]_vars

\* C32: fail_try with an ExceededTimeout rejection sets
\* max_timed_out_after_secs to the larger of its previous value and the
\* newly observed one (the [timeout:*] the rejected request was sent with);
\* fail_try with any other error, and every other step of a run, leaves it
\* unchanged; so it never decreases within a run (only the reset at the
\* start of a run, which sets nb_tries back to 0, clears it).
C32_MaxTimedOutNeverDecreases ==
  [][\A q \in Queries :
       LET qr == query[q]
           qn == query'[q]
           failed == qn.error # qr.error /\ qn.error # NoError
       IN (qn.nb_tries >= qr.nb_tries)
          => /\ qn.max_timeout_secs_exceeded >= qr.max_timeout_secs_exceeded
             /\ (failed /\ is_exceeding_timeout(qn.error))
                => qn.max_timeout_secs_exceeded =
                     IF qr.max_timeout_secs_exceeded >= qr.last_timeout_secs_used
                     THEN qr.max_timeout_secs_exceeded
                     ELSE qr.last_timeout_secs_used
             /\ ~(failed /\ is_exceeding_timeout(qn.error))
                => qn.max_timeout_secs_exceeded = qr.max_timeout_secs_exceeded]_vars

\* ----- _parse_status on its own.  A status text is taken for what the
\* parser's patterns find in it: the numbers N of its "Rate limit: N"
\* lines, of its "N slots available now" lines and of its "Slot available
\* after: ..., in N seconds" lines, each in the order of the text.

\* The sequences over S of length up to n.
SeqsUpTo(S, n) == UNION {[1 .. k -> S] : k \in 0 .. n}

StatusTexts ==
  [limits : SeqsUpTo(0 .. MaxStatusNumber, 2),
   available : SeqsUpTo(0 .. MaxStatusNumber, 1),
   cooldowns : SeqsUpTo(0 .. MaxStatusNumber, MaxCooldownLines)]

\* Python's min() of a non-empty list.
MinOf(seq) ==
  CHOOSE x \in {seq[i] : i \in 1 .. Len(seq)} :
    \A i \in 1 .. Len(seq) : x <= seq[i]

\* _raise_for_response: a ResponseError is raised.
ResponseErrorRaised == [kind |-> "ResponseError"]

\* An `int | None` attribute of a Status: <<>> for None, <<n>> for n.
NoInt == <<>>

SomeInt(n) == <<n>>

\* Status(slots=..., free_slots=..., cooldown_secs=...)
StatusOf(slots, free_slots, cooldown_secs) ==
  [kind |-> "Status", slots |-> slots, free_slots |-> free_slots,
   cooldown_secs |-> cooldown_secs]

\* _parse_status: the ValueError of `(slots_str,) = match_slots_overall` and
\* of min() of an empty list become a ResponseError.
_parse_status(text) ==
  IF Len(text.limits) # 1
  THEN ResponseErrorRaised
  ELSE IF text.limits[1] = 0
  THEN StatusOf(NoInt, NoInt, 0)
  ELSE LET slots == text.limits[1]
           free_slots == IF text.available # <<>>
                         THEN text.available[1]
                         ELSE slots - Len(text.cooldowns)
       IN IF free_slots > 0
          THEN StatusOf(SomeInt(slots), SomeInt(free_slots), 0)
          ELSE IF text.cooldowns = <<>>
          THEN ResponseErrorRaised
          ELSE StatusOf(SomeInt(slots), SomeInt(free_slots),
                        MinOf(text.cooldowns))

\* `await _parse_status(response)` for a response with the given text, once
\* per behaviour.
ParseStatus(text) ==
  /\ ret = NoRet
  /\ ret' = [fn |-> "_parse_status", arg |-> text, val |-> _parse_status(text)]
  /\ UNCHANGED <<callers, now, query, cache, pc, run, out, kill>>

ParseInit ==
  /\ callers = 1
  /\ now = 0
  /\ query = [q \in Queries |-> NewQuery(q, QueryLogger(q))]
  /\ cache = Unset
  /\ pc = [t \in Tasks |-> "idle"]
  /\ run = [t \in Tasks |-> IdleRun]
  /\ out = [t \in Tasks |-> NoOutcome]
  /\ kill = NoKill
  /\ ret = NoRet

ParseNext == \E text \in StatusTexts : ParseStatus(text)

ParseSpec == ParseInit /\ [][ParseNext]_vars

\* C34: every Status the status parser returns is well formed: free_slots
\* is None exactly when slots is None; when slots is set, free_slots is
\* between 0 and slots, and cooldown_secs is 0 when a slot is free and the
\* smallest reported cooldown otherwise (a text that yields no such Status
\* raises ResponseError).
C34_StatusWellFormed ==
  (ret.fn = "_parse_status" /\ ret.val.kind = "Status")
  => LET st == ret.val
     IN /\ (st.free_slots = NoInt) <=> (st.slots = NoInt)
        /\ st.slots # NoInt
           => /\ st.free_slots # NoInt
              /\ 0 <= st.free_slots[1] /\ st.free_slots[1] <= st.slots[1]
              /\ IF st.free_slots[1] > 0
                 THEN st.cooldown_secs = 0
                 ELSE /\ ret.arg.cooldowns # <<>>
                      /\ st.cooldown_secs = MinOf(ret.arg.cooldowns)

\* C38: the timestamps of a query that are set are ordered time_start <=
\* time_start_try <= time_start_request <= time_end_try; a try of a run
\* that is not the run's first finds time_start set and leaves it as it is;
\* run_duration_secs and request_duration_secs are never negative.
C38_TimestampsOrdered ==
  /\ [](\A q \in Queries :
          LET qr == query[q]
              stamps == <<qr.time_start, qr.time_start_try, qr.time_start_req,
                          qr.time_end_try>>
          IN /\ \A i \in 1 .. 4 : \A j \in i .. 4 :
                  (stamps[i] # Unset /\ stamps[j] # Unset) => stamps[i] <= stamps[j]
             /\ run_duration_secs(qr) # Unset => run_duration_secs(qr) >= 0
             /\ (request_duration_secs(qr) # Unset /\ request_duration_assert_ok(qr))
                => request_duration_secs(qr) >= 0)
  /\ [][\A t \in Tasks :
          (/\ pc[t] = "after_runner" /\ pc'[t] = "cooldown" /\ run[t].tries >= 1)
          => /\ query[run[t].q].time_start # Unset
             /\ query'[run[t].q].time_start = query[run[t].q].time_start]_vars

\* C39: when the status request of the cooldown phase fails with a
\* ClientError (an error of the transport or of the response, or a
\* timeout; no Status is returned, run[t].cd stays 0), the try ends with that error in query.error in place of the
\* TooManyQueries rejection, without an interpreter request (begin_request
\* was not called) and with nb_tries incremented; and a try that begins a
\* cooldown probe does so for a TooManyQueries rejection that the previous
\* try of the same run recorded, so the try that follows a failed status
\* request does not probe.
C39_StatusFailureEndsTry ==
  [][\A t \in Tasks :
       LET q == run[t].q
           qr == query[q]
           qn == query'[q]
       IN /\ (/\ pc[t] \in {"status_wait", "status"}
              /\ pc'[t] \notin {"status_wait", "status", "prepare", "cd_sleep"}
              /\ run'[t].cd = 0
              /\ out'[t].kind # "CancelledError")
             => /\ qn.error.kind \in {"Call", "CallTimeout", "Response"}
                /\ qn.error # qr.error
                /\ qn.error.by = t /\ qn.error.n = run[t].tries
                /\ qn.nb_tries = qr.nb_tries + 1
                /\ qn.time_start_req = Unset
                /\ ~done(qn)
                /\ pc'[t] = "invoke"
          /\ (pc[t] = "cooldown" /\ pc'[t] = "status_wait")
             => /\ is_too_many_queries(qr.error)
                /\ qr.error.by = t
                /\ qr.error.run = run[t].runs
                /\ qr.error.n = run[t].tries - 1]_vars

\* C40: the total deadline of an interpreter request of a query with
\* run_timeout_secs set is at most the run budget that is left when the
\* request is prepared, run_timeout_secs - run_duration_secs as the query
\* reports them at that moment, and that budget is positive.
C40_RequestWithinRunBudget ==
  [][\A t \in Tasks :
       LET qr == query[run[t].q]
           remaining == qr.run_timeout_secs - run_duration_secs(qr)
       IN (/\ pc[t] = "prepare" /\ pc'[t] = "post_wait"
           /\ qr.run_timeout_secs # Unset)
          => /\ run_duration_secs(qr) # Unset
             /\ remaining > 0
             /\ run'[t].wake # Unset
             /\ run'[t].wake <= now + remaining]_vars

\* The request of a run's second try, prepared one second into a run with a
\* run timeout, waits with the second that is left as its deadline.
C40_Witness ==
  \E t \in Tasks :
    LET qr == query[run[t].q]
    IN /\ pc[t] = "post_wait"
       /\ run[t].tries = 2
       /\ qr.run_timeout_secs = RunTimeoutSecs
       /\ qr.time_start_req = qr.time_start + 1
       /\ run[t].wake = qr.time_start + RunTimeoutSecs

\* ----- the response classifier (error.py), applied to one interpreter
\* response per behaviour by a run of q1 on the client with the default
\* runner.

\* What an error message contains: a substring of the rejection dictionary
\* ("quota": `Please check /api/status for the quota of your IP address`,
\* "busy": `The server is probably too busy to handle your request`,
\* "timed_out": `Query timed out`, "oom": `out of memory`) or one of the QL
\* error substrings `encoding error:`, `parse error:`, `static error:` ("ql").
Markers == {"quota", "busy", "timed_out", "oom", "ql"}

\* An error message, as the set of the markers it contains.
Fragments == {f \in SUBSET Markers : Cardinality(f) <= MaxMarkers}

ContentTypes == {"text/plain", "text/html", "application/json", "other"}

\* The HTTP status codes drawn: OK, Too Many Requests, Gateway Timeout.
StatusCodes == {200, 429, 504}

\* An interpreter response: its status, its content type, the
\* `Error</strong>: ...</p>` fragments of its text, what its text decodes to
\* as JSON ("invalid": JSONDecodeError, "null": None, "object"), the
\* object's truthy remark (<<>> when it is absent or empty), and whether
\* the object has every expected field.
Responses ==
  LET Html == [errors : SeqsUpTo(Fragments, MaxFragments), json : {"invalid"},
               remark : {<<>>}, complete : {FALSE}]
      Json == [errors : {<<>>}, json : {"invalid", "null"},
               remark : {<<>>}, complete : {FALSE}]
              \cup [errors : {<<>>}, json : {"object"},
                    remark : SeqsUpTo(Fragments, 1), complete : BOOLEAN]
  IN {[status |-> s, content_type |-> ct, errors |-> b.errors, json |-> b.json,
       remark |-> b.remark, complete |-> b.complete] :
        s \in StatusCodes, ct \in ContentTypes, b \in Html \cup Json}

\* What the classifier does: it returns the JSON object ("Json") or raises
\* an error of this class (for a QueryRejectError, its cause).
Returned(kind) == [kind |-> kind]

__match_reject_cause(error_msg) ==
  IF "quota" \in error_msg THEN "TooMany"
  ELSE IF "busy" \in error_msg THEN "TooBusy"
  ELSE IF "timed_out" \in error_msg THEN "ExTimeout"
  ELSE IF "oom" \in error_msg THEN "ExMaxsize"
  ELSE "none"

__is_ql_error(error_msg) == "ql" \in error_msg

\* "pass" when the function returns without raising.
__raise_for_plaintext_result(response) ==
  IF response.content_type # "text/plain" THEN "pass" ELSE "Response"

__raise_for_html_result(response) ==
  LET errors == response.errors
      matching == {i \in 1 .. Len(errors) : __match_reject_cause(errors[i]) # "none"}
      first == CHOOSE i \in matching : \A j \in matching : i <= j
  IN IF response.content_type # "text/html" THEN "pass"
     ELSE IF errors = <<>> THEN "Response"
     ELSE IF \E i \in 1 .. Len(errors) : __is_ql_error(errors[i]) THEN "QL"
     ELSE IF matching # {} THEN __match_reject_cause(errors[first])
     ELSE "QueryResponse"

\* A variant of __raise_for_json_result that does not look at the remark.
__raise_for_json_result_IgnoresRemark(response) ==
  IF response.content_type # "application/json" THEN "Response"
  ELSE IF response.json # "object" THEN "Response"
  ELSE IF ~response.complete THEN "Response"
  ELSE "Json"

\* response.json() raises ContentTypeError, a ClientResponseError, for a
\* content type other than application/json.
__raise_for_json_result(response) ==
  IF response.content_type # "application/json" THEN "Response"
  ELSE IF response.json # "object" THEN "Response"
  ELSE IF response.remark # <<>>
  THEN IF __match_reject_cause(response.remark[1]) # "none"
       THEN __match_reject_cause(response.remark[1])
       ELSE "QueryResponse"
  ELSE IF ~response.complete THEN "Response"
  ELSE "Json"

_result_or_raise(response) ==
  IF __raise_for_plaintext_result(response) # "pass"
  THEN Returned(__raise_for_plaintext_result(response))
  ELSE IF __raise_for_html_result(response) # "pass"
  THEN Returned(__raise_for_html_result(response))
  ELSE Returned(__raise_for_json_result(response))

\* The interpreter answers with some response: succeed_try with what
\* _result_or_raise returns, or fail_try with what it raises; end_try.
PostResponds(t) ==
  /\ pc[t] = "post"
  /\ ret = NoRet
  /\ Quiet(t)
  /\ InTime(t)
  /\ \E response \in Responses :
       LET val == _result_or_raise(response)
       IN /\ ret' = [fn |-> "_result_or_raise", arg |-> response, val |-> val]
          /\ IF val.kind = "Json"
             THEN /\ query' = [query EXCEPT ![run[t].q] = end_try(succeed_try(@))]
                  /\ pc' = [pc EXCEPT ![t] = "invoke"]
                  /\ out' = out
             ELSE TryFails(t, NewError(t, val.kind))
  /\ run' = [run EXCEPT ![t].wake = Unset]
  /\ UNCHANGED <<callers, kill, now, cache>>

ClassifyInit ==
  /\ callers = 1
  /\ now = 0
  /\ query = [q \in Queries |-> QueryInit(Unset, Unset, NullLogger)]
  /\ cache = Unset
  /\ pc = [t \in Tasks |-> "idle"]
  /\ run = [t \in Tasks |-> IdleRun]
  /\ out = [t \in Tasks |-> NoOutcome]
  /\ kill = NoKill
  /\ ret = NoRet

ClassifyNext ==
  \/ \E rof \in BOOLEAN : RunQuery(FirstTask, "q1", "c1", rof)
  \/ InvokeRunner(FirstTask)
  \/ \E readable \in BOOLEAN : CacheRead(FirstTask, readable)
  \/ RunnerBody(FirstTask)
  \/ \E written \in BOOLEAN : CacheWrite(FirstTask, written)
  \/ BackoffDone(FirstTask)
  \/ AfterRunner(FirstTask)
  \/ Cooldown(FirstTask)
  \/ Prepare(FirstTask)
  \/ SendPost(FirstTask)
  \/ PostResponds(FirstTask)
  \/ Tick

ClassifySpec == ClassifyInit /\ [][ClassifyNext]_vars

C36_StatusCodeRejections ==
  [][(ret' # ret /\ ret'.fn = "_result_or_raise")
     => LET r == ret'.arg
            qn == query'["q1"]
            diagnosis == \/ r.content_type = "text/html" /\ r.errors # <<>>
                         \/ /\ r.content_type = "application/json"
                            /\ r.json = "object" /\ r.remark # <<>>
        IN IF diagnosis
           THEN ret'.val = _result_or_raise([r EXCEPT !.status = 200])
           ELSE /\ r.status = 429 => qn.error.kind = "TooMany"
                /\ r.status = 504 => qn.error.kind = "TooBusy"]_vars

\* ----- the effective QL of a query (Query.__init__, Query._code), on
\* QL texts as sequences of tokens.

\* A token of a QL text: a setting declaration `[k:n]` or `[k:s]` (text that
\* `\[(\w+?):(.+?)]` matches), or one character of other text (k = "").
Setting(k, n, s) == [k |-> k, n |-> n, s |-> s]

Char(s) == Setting("", 0, s)

IsSetting(tok) == tok.k # ""

\* `\s` matches the token.
IsSpace(tok) == tok \in {Char(" "), Char("\n")}

CodeTokens ==
  {Setting("timeout", 10, ""), Setting("timeout", 25, ""),
   Setting("maxsize", 5, ""), Setting("out", 0, "xml"),
   Char(" "), Char("\n"), Char(";"), Char("x")}

InputCodes == SeqsUpTo(CodeTokens, MaxCodeLen)

\* The rest of `code` after the `\s*;?` that follows a declaration.
RECURSIVE AfterSpaces(_)
AfterSpaces(code) ==
  IF code # <<>> /\ IsSpace(Head(code)) THEN AfterSpaces(Tail(code))
  ELSE IF code # <<>> /\ Head(code) = Char(";") THEN Tail(code)
  ELSE code

\* _SETTING_PATTERN.sub("", code)
RECURSIVE PatternSub(_)
PatternSub(code) ==
  IF code = <<>> THEN <<>>
  ELSE IF IsSetting(Head(code)) THEN PatternSub(AfterSpaces(Tail(code)))
  ELSE <<Head(code)>> \o PatternSub(Tail(code))

\* _SETTING_PATTERN.findall(code)
PatternFindall(code) == SelectSeq(code, IsSetting)

\* dict `d` (a sequence of settings, in insertion order) after d[k] = v.
DictSet(d, tok) ==
  IF \E i \in 1 .. Len(d) : d[i].k = tok.k
  THEN [i \in 1 .. Len(d) |-> IF d[i].k = tok.k THEN tok ELSE d[i]]
  ELSE Append(d, tok)

\* dict(pairs)
RECURSIVE DictOf(_)
DictOf(pairs) ==
  IF pairs = <<>> THEN <<>>
  ELSE DictSet(DictOf(SubSeq(pairs, 1, Len(pairs) - 1)), pairs[Len(pairs)])

HasKey(d, k) == \E i \in 1 .. Len(d) : d[i].k = k

\* Query.__init__: self._settings
SettingsOf(input_code) ==
  LET d0 == DictSet(DictOf(PatternFindall(input_code)), Setting("out", 0, "json"))
      d1 == IF HasKey(d0, "maxsize") THEN d0
            ELSE Append(d0, Setting("maxsize", DEFAULT_MAXSIZE_MIB * 1024 * 1024, ""))
  IN IF HasKey(d1, "timeout") THEN d1
     ELSE Append(d1, Setting("timeout", DEFAULT_TIMEOUT_SECS, ""))

\* Query(input_code)._code() before the first try of a query without run
\* timeout: the settings statement, a newline, the input without its
\* declarations.
_code(input_code) ==
  SettingsOf(input_code) \o <<Char(";"), Char("\n")>> \o PatternSub(input_code)

\* The effective QL of a query built from `input_code`.
EffectiveQL(input_code) ==
  /\ ret = NoRet
  /\ ret' = [fn |-> "_code", arg |-> input_code, val |-> _code(input_code), n |-> 1]
  /\ UNCHANGED <<callers, now, query, cache, pc, run, out, kill>>

\* The effective QL of a query built from the last effective QL.
EffectiveQLAgain ==
  /\ ret.fn = "_code"
  /\ ret.n < MaxRewrites
  /\ ret' = [fn |-> "_code", arg |-> ret.val, val |-> _code(ret.val), n |-> ret.n + 1]
  /\ UNCHANGED <<callers, now, query, cache, pc, run, out, kill>>

RewriteInit ==
  /\ callers = 1
  /\ now = 0
  /\ query = [q \in Queries |-> QueryInit(Unset, Unset, NullLogger)]
  /\ cache = Unset
  /\ pc = [t \in Tasks |-> "idle"]
  /\ run = [t \in Tasks |-> IdleRun]
  /\ out = [t \in Tasks |-> NoOutcome]
  /\ kill = NoKill
  /\ ret = NoRet

RewriteNext ==
  \/ \E input_code \in InputCodes : EffectiveQL(input_code)
  \/ EffectiveQLAgain

RewriteSpec == RewriteInit /\ [][RewriteNext]_vars

\* C37: the effective QL of a query built from an effective QL is that
\* effective QL: the same settings statement, the same body, no character
\* added or lost.
C37_RewriteFixedPoint ==
  [][(ret.fn = "_code" /\ ret'.fn = "_code" /\ ret'.arg = ret.val)
     => ret'.val = ret.val]_vars

====
